---- MODULE Spec2Model ----
(***************************************************************************)
(* Model of src/app.py: the knowledge graph built by load_kg (a networkx   *)
(* DiGraph), the accessors, categories_are_similar, score_candidate and    *)
(* the breadth-first search and ranking of find_alternatives.              *)
(*                                                                         *)
(* Conventions.  A Python value that may be None is a set with at most one *)
(* element: None == {} and Some(x) == {x}.  Node ids are the integers      *)
(* 1..NumNodes, tags are the integers 1..NumTags standing for tag names in *)
(* lexicographic order, brands are strings.  A call that ends in a Python  *)
(* exception yields a record whose exc field names the exception.  Scores  *)
(* are exact rationals [num, den]; Python computes them in binary floating *)
(* point, which is exact for the halves and small integers used here and   *)
(* rounds only the more_expensive penalty.                                 *)
(***************************************************************************)
EXTENDS Integers, Sequences, FiniteSets, TLC

\* ---------------------------------------------------------------- bounds
NumNodes == 6
MaxPrice == 2
NumTags == 2

\* ------------------------------------------------------ program constants
\* "if dist + 1 <= 4" in the search loop
DepthLimit == 4
\* default of the max_results parameter
DefaultMaxResults == 3

\* --------------------------------------------------------- Python values
None == {}
Some(x) == {x}
Val(o) == CHOOSE x \in o : TRUE
NoExc == "none"

NodeIds == 1..NumNodes
Prices == 0..MaxPrice
Tags == 1..NumTags
Brands == {"X", "Y"}

Max(a, b) == IF a >= b THEN a ELSE b

\* Python truth value of an optional string: None and "" are false.
Truthy(o) == o # None /\ Val(o) # ""

\* Python "x <= y" on prices: a None operand raises TypeError.
PyLe(x, y) ==
    IF x = None \/ y = None
    THEN [exc |-> "TypeError", val |-> FALSE]
    ELSE [exc |-> NoExc, val |-> Val(x) <= Val(y)]

\* ------------------------------------------------------------- the graph
\* The attribute dict of a node; a missing key is None (tags: no tags).
EmptyProps ==
    [type |-> None, price |-> None, in_stock |-> None, brand |-> None,
     tags |-> {}, category |-> None]

EmptyGraph == [node |-> <<>>, succ |-> <<>>, pred |-> <<>>, edge |-> <<>>]

Override(old, new) == IF new = None THEN old ELSE new

\* G.add_node(id, **props): creates the node or updates its attributes.
add_node(g, n, props) ==
    IF n \in DOMAIN g.node
    THEN [g EXCEPT !.node = (n :> [type |-> Override(g.node[n].type, props.type),
                                   price |-> Override(g.node[n].price, props.price),
                                   in_stock |-> Override(g.node[n].in_stock, props.in_stock),
                                   brand |-> Override(g.node[n].brand, props.brand),
                                   tags |-> IF props.tags = {} THEN g.node[n].tags ELSE props.tags,
                                   category |-> Override(g.node[n].category, props.category)])
                                  @@ g.node]
    ELSE [g EXCEPT !.node = (n :> props) @@ g.node,
                   !.succ = (n :> <<>>) @@ g.succ,
                   !.pred = (n :> <<>>) @@ g.pred]

InSeq(x, s) == \E i \in 1..Len(s) : s[i] = x

\* G.add_edge(u, v, type=t) on a DiGraph: endpoints are created when missing,
\* and one attribute dict is kept per ordered pair (a later edge of the same
\* pair overwrites the type).
add_edge(g, u, v, t) ==
    LET g1 == IF u \in DOMAIN g.node THEN g ELSE add_node(g, u, EmptyProps)
        g2 == IF v \in DOMAIN g1.node THEN g1 ELSE add_node(g1, v, EmptyProps)
    IN [g2 EXCEPT !.succ[u] = IF InSeq(v, @) THEN @ ELSE Append(@, v),
                  !.pred[v] = IF InSeq(u, @) THEN @ ELSE Append(@, u),
                  !.edge = (<<u, v>> :> [type |-> t]) @@ g2.edge]

RECURSIVE add_nodes(_, _)
add_nodes(g, ns) ==
    IF ns = <<>> THEN g
    ELSE add_nodes(add_node(g, Head(ns).id, Head(ns).props), Tail(ns))

RECURSIVE add_edges(_, _)
add_edges(g, es) ==
    IF es = <<>> THEN g
    ELSE add_edges(add_edge(g, Head(es).source, Head(es).target,
                            IF Head(es).type = None THEN "RELATED" ELSE Val(Head(es).type)),
                   Tail(es))

\* data is the parsed JSON: [nodes: Seq([id, props]), edges: Seq([source, target, type])]
load_kg(data) == add_edges(add_nodes(EmptyGraph, data.nodes), data.edges)

InGraph(n, g) == n \in DOMAIN g.node
has_edge(g, u, v) == <<u, v>> \in DOMAIN g.edge
get_edge_data(g, u, v) == g.edge[<<u, v>>]
successors(g, n) == g.succ[n]
predecessors(g, n) == g.pred[n]

\* ------------------------------------------------------------- accessors
is_product(node, g) == g.node[node].type = Some("product")
get_price(node, g) == g.node[node].price
in_stock(node, g) == IF g.node[node].in_stock = None THEN FALSE ELSE Val(g.node[node].in_stock)
get_brand(node, g) == g.node[node].brand
get_tags(node, g) == g.node[node].tags
get_category(node, g) == g.node[node].category

\* ------------------------------------------------- categories_are_similar
\* "for e in <dict>.values(): if e.get("type") == ...": the values of the
\* attribute dict {"type": t} are strings, and str has no method get, so the
\* first iteration raises AttributeError; an empty dict would fall through.
ScanEdgeData(d) ==
    IF DOMAIN d = {} THEN [exc |-> NoExc, val |-> FALSE]
    ELSE [exc |-> "AttributeError", val |-> FALSE]

\* "not cat_a" is the test for None here: the ids of the model are non-zero
\* integers, which Python counts as true.
categories_are_similar(g, cat_a, cat_b) ==
    IF cat_a = None \/ cat_b = None THEN [exc |-> NoExc, val |-> FALSE]
    ELSE IF cat_a = cat_b THEN [exc |-> NoExc, val |-> TRUE]
    ELSE LET a == Val(cat_a)
             b == Val(cat_b)
             fwd == IF has_edge(g, a, b) THEN ScanEdgeData(get_edge_data(g, a, b))
                    ELSE [exc |-> NoExc, val |-> FALSE]
         IN IF fwd.exc # NoExc \/ fwd.val THEN fwd
            ELSE IF has_edge(g, b, a) THEN ScanEdgeData(get_edge_data(g, b, a))
            ELSE [exc |-> NoExc, val |-> FALSE]

\* --------------------------------------------------------- score_candidate
Reason(c) == [code |-> c, arg |-> <<>>]

\* sorted(S) for a set of tags
RECURSIVE Sorted(_)
Sorted(S) ==
    IF S = {} THEN <<>>
    ELSE LET lo == CHOOSE x \in S : \A y \in S : x <= y
         IN <<lo>> \o Sorted(S \ {lo})

\* f"missing_tags:{','.join(sorted(missing))}"
MissingTags(missing) == [code |-> "missing_tags", arg |-> Sorted(missing)]

\* The score is num/den with den = 2 * max(1.0, req_price) (2 when the
\* requested price is missing), so that every contribution is an integer
\* numerator: 3.0 is 3*den, 1.5 is 3*m, 0.5 is m, and the penalty
\* 0.5 * ((cand_price - req_price) / max(1.0, req_price)) is cand_price - req_price.
score_candidate(g, requested, candidate, required_tags, optional_brand) ==
    LET req_cat == get_category(requested, g)
        cand_cat == get_category(candidate, g)
        req_price == get_price(requested, g)
        cand_price == get_price(candidate, g)
        m == IF req_price = None THEN 1 ELSE Max(1, Val(req_price))
        den == 2 * m
        same == req_cat # None /\ cand_cat # None /\ req_cat = cand_cat
        sim == IF same THEN [exc |-> NoExc, val |-> FALSE]
               ELSE categories_are_similar(g, req_cat, cand_cat)
        catRule == IF same THEN [d |-> 3 * den, r |-> <<Reason("same_category")>>]
                   ELSE IF sim.val THEN [d |-> 3 * m, r |-> <<Reason("related_category")>>]
                   ELSE [d |-> 0, r |-> <<>>]
        brandRule ==
            IF Truthy(optional_brand)
            THEN IF get_brand(candidate, g) = optional_brand
                 THEN [d |-> den, r |-> <<Reason("brand_match")>>]
                 ELSE [d |-> 0, r |-> <<Reason("different_brand")>>]
            ELSE IF get_brand(candidate, g) = get_brand(requested, g)
                 THEN [d |-> m, r |-> <<Reason("same_brand")>>]
                 ELSE [d |-> 0, r |-> <<>>]
        cand_tags == get_tags(candidate, g)
        matched_tags == required_tags \cap cand_tags
        tagRule ==
            IF required_tags # {}
            THEN IF matched_tags = required_tags
                 THEN [d |-> 2 * den, r |-> <<Reason("all_required_tags_matched")>>]
                 ELSE [d |-> m * Cardinality(matched_tags),
                       r |-> <<MissingTags(required_tags \ matched_tags)>>]
            ELSE [d |-> 0, r |-> <<>>]
        priceRule ==
            IF req_price # None /\ cand_price # None
            THEN IF Val(cand_price) <= Val(req_price)
                 THEN [d |-> den, r |-> <<Reason("cheaper_or_equal_price")>>]
                 ELSE [d |-> 0 - (Val(cand_price) - Val(req_price)),
                       r |-> <<Reason("more_expensive")>>]
            ELSE [d |-> 0, r |-> <<>>]
    IN IF sim.exc # NoExc
       THEN [exc |-> sim.exc, score |-> [num |-> 0, den |-> den], reasons |-> <<>>]
       ELSE [exc |-> NoExc,
             score |-> [num |-> catRule.d + brandRule.d + tagRule.d + priceRule.d,
                        den |-> den],
             reasons |-> catRule.r \o brandRule.r \o tagRule.r \o priceRule.r]

\* ------------------------------------------------------- find_alternatives
VARIABLES G, query, pc, queue, visited, cur, neighbors, candidates, result,
          enqueued, call

vars == <<G, query, pc, queue, visited, cur, neighbors, candidates, result,
          enqueued, call>>

NoResult == [kind |-> "none", exc |-> NoExc, exact |-> None, alternatives |-> <<>>]
Raised(e) == [kind |-> "raised", exc |-> e, exact |-> None, alternatives |-> <<>>]
NoCall == [fn |-> "none"]
NoCur == [node |-> 0, dist |-> 0, path |-> <<>>]

\* price_ok = (max_price is None) or (get_price(n, G) <= max_price)
price_ok(n, g, max_price) ==
    IF max_price = None THEN [exc |-> NoExc, val |-> TRUE]
    ELSE PyLe(get_price(n, g), max_price)

\* tags_ok with the subset test the wrong way round
tags_ok_reversed(n, g, required_tags) == get_tags(n, g) \subseteq required_tags

\* tags_ok = required_tags.issubset(get_tags(n, G))
tags_ok(n, g, required_tags) == required_tags \subseteq get_tags(n, g)

\* brand_ok = (optional_brand is None) or (get_brand(n, G) == optional_brand)
brand_ok(n, g, optional_brand) ==
    optional_brand = None \/ get_brand(n, g) = optional_brand

\* Line 79 calls in_stock(nbr) with one argument; in_stock takes (node, G),
\* so the call raises TypeError before the body runs.
in_stock_nbr(nbr) == [exc |-> "TypeError", val |-> FALSE]

\* Python's tuple order on the sort key (-score, price); comparing a missing
\* price with a number raises TypeError, equal keys compare without error.
ScoreLess(a, b) == a.num * b.den > b.num * a.den  \* -a < -b
ScoreEq(a, b) == a.num * b.den = b.num * a.den
KeyLess(g, x, y) ==
    IF ~ScoreEq(x.score, y.score) THEN ScoreLess(x.score, y.score)
    ELSE LET px == get_price(x.product, g)
             py == get_price(y.product, g)
         IN IF px = None \/ py = None THEN FALSE ELSE Val(px) < Val(py)

KeyRaises(g, x, y) ==
    /\ ScoreEq(x.score, y.score)
    /\ (get_price(x.product, g) = None) # (get_price(y.product, g) = None)

\* sorted(): stable; an element goes after every element not greater than it.
RECURSIVE InsertSorted(_, _, _)
InsertSorted(g, s, x) ==
    IF s = <<>> THEN <<x>>
    ELSE IF KeyLess(g, x, Head(s)) THEN <<x>> \o s
    ELSE <<Head(s)>> \o InsertSorted(g, Tail(s), x)

RECURSIVE sorted(_, _)
sorted(g, s) ==
    IF s = <<>> THEN <<>>
    ELSE InsertSorted(g, sorted(g, SubSeq(s, 1, Len(s) - 1)), s[Len(s)])

\* candidates[:max_results] for max_results >= 0
Slice(s, k) == SubSeq(s, 1, IF k < Len(s) THEN k ELSE Len(s))

\* Lines 47-64: the membership check, the exact-match check and the set-up of
\* the search.  price_ok, tags_ok and brand_ok are all evaluated before the
\* test of line 55, so a raising price comparison ends the call.
Start ==
    /\ pc = "start"
    /\ LET r == query.requested_product_id
           po == price_ok(r, G, query.max_price)
       IN IF ~InGraph(r, G)
          THEN /\ result' = [NoResult EXCEPT !.kind = "error"]
               /\ pc' = "done"
               /\ UNCHANGED <<queue, visited, enqueued>>
          ELSE IF is_product(r, G) /\ in_stock(r, G) /\ po.exc # NoExc
          THEN /\ result' = Raised(po.exc)
               /\ pc' = "done"
               /\ UNCHANGED <<queue, visited, enqueued>>
          ELSE IF /\ is_product(r, G) /\ in_stock(r, G)
                  /\ po.val
                  /\ tags_ok(r, G, query.required_tags)
                  /\ brand_ok(r, G, query.optional_brand)
          THEN /\ result' = [NoResult EXCEPT !.kind = "exact_match", !.exact = Some(r)]
               /\ pc' = "done"
               /\ UNCHANGED <<queue, visited, enqueued>>
          ELSE /\ queue' = <<[node |-> r, dist |-> 0, path |-> <<r>>]>>
               /\ visited' = {r}
               /\ enqueued' = <<r>>
               /\ pc' = "while"
               /\ UNCHANGED result
    /\ UNCHANGED <<G, query, cur, neighbors, candidates, call>>

\* Lines 67-70: one pass of "while queue": pop the left end and list the
\* neighbours, successors first.
Pop ==
    /\ pc = "while"
    /\ queue # <<>>
    /\ cur' = Head(queue)
    /\ queue' = Tail(queue)
    /\ neighbors' = successors(G, Head(queue).node) \o predecessors(G, Head(queue).node)
    /\ pc' = IF neighbors' = <<>> THEN "while" ELSE "for"
    /\ UNCHANGED <<G, query, visited, candidates, result, enqueued, call>>

\* Lines 77-88 for a neighbour that was just marked visited: the outcome is
\* an exception or the candidate list, extended when the neighbour qualifies.
Consider(g, q, nbr, new_path, cands) ==
    IF ~(is_product(nbr, g) /\ nbr # q.requested_product_id)
    THEN [exc |-> NoExc, candidates |-> cands]
    ELSE LET stock == in_stock_nbr(nbr)
             po == price_ok(nbr, g, q.max_price)
             sc == score_candidate(g, q.requested_product_id, nbr,
                                   q.required_tags, q.optional_brand)
         IN IF stock.exc # NoExc THEN [exc |-> stock.exc, candidates |-> cands]
            ELSE IF ~stock.val THEN [exc |-> NoExc, candidates |-> cands]
            ELSE IF po.exc # NoExc THEN [exc |-> po.exc, candidates |-> cands]
            ELSE IF ~(po.val /\ tags_ok(nbr, g, q.required_tags)
                             /\ brand_ok(nbr, g, q.optional_brand))
            THEN [exc |-> NoExc, candidates |-> cands]
            ELSE IF sc.exc # NoExc THEN [exc |-> sc.exc, candidates |-> cands]
            ELSE [exc |-> NoExc,
                  candidates |-> Append(cands, [product |-> nbr, score |-> sc.score,
                                                reasons |-> sc.reasons, path |-> new_path])]

\* Lines 71-91: one iteration of "for nbr in neighbors".
Visit ==
    /\ pc = "for"
    /\ neighbors # <<>>
    /\ LET nbr == Head(neighbors)
           new_path == Append(cur.path, nbr)
           out == Consider(G, query, nbr, new_path, candidates)
           next == IF Tail(neighbors) = <<>> THEN "while" ELSE "for"
       IN /\ neighbors' = Tail(neighbors)
          /\ IF nbr \in visited
             THEN /\ pc' = next
                  /\ UNCHANGED <<visited, candidates, queue, enqueued, result>>
             ELSE /\ visited' = visited \cup {nbr}
                  /\ IF out.exc # NoExc
                     THEN /\ result' = Raised(out.exc)
                          /\ pc' = "done"
                          /\ UNCHANGED <<candidates, queue, enqueued>>
                     ELSE /\ candidates' = out.candidates
                          /\ IF cur.dist + 1 <= DepthLimit
                             THEN /\ queue' = Append(queue, [node |-> nbr, dist |-> cur.dist + 1,
                                                             path |-> new_path])
                                  /\ enqueued' = Append(enqueued, nbr)
                             ELSE UNCHANGED <<queue, enqueued>>
                          /\ pc' = next
                          /\ UNCHANGED result
    /\ UNCHANGED <<G, query, cur, call>>

\* Lines 93-96: sort by (-score, price), keep the first max_results.
Rank ==
    /\ pc = "while"
    /\ queue = <<>>
    /\ IF \E i, j \in 1..Len(candidates) : KeyRaises(G, candidates[i], candidates[j])
       THEN result' = Raised("TypeError")
       ELSE result' = [NoResult EXCEPT !.kind = "alternatives",
                                       !.alternatives = Slice(sorted(G, candidates),
                                                              query.max_results)]
    /\ pc' = "done"
    /\ UNCHANGED <<G, query, queue, visited, cur, neighbors, candidates, enqueued, call>>

\* ------------------------------------------------------ graphs and queries
\* The JSON documents and queries the runs start from.
NodeRec(i, props) == [id |-> i, props |-> props]
EdgeRec(u, v, t) == [source |-> u, target |-> v, type |-> t]

Product(stock, price, brand, tags, category) ==
    [type |-> Some("product"), price |-> price, in_stock |-> stock, brand |-> brand,
     tags |-> tags, category |-> category]
Category == [EmptyProps EXCEPT !.type = Some("category")]

\* Every other edge of the document omits "type" (load_kg's default applies).
LinkType(i) == IF i % 2 = 0 THEN None ELSE Some("IS_A")

\* The edges of link i (between nodes i and i+1) of a graph of the given shape.
Link(i, shape) ==
    CASE shape = "fwd" -> <<EdgeRec(i, i + 1, LinkType(i))>>
      [] shape = "bwd" -> <<EdgeRec(i + 1, i, LinkType(i))>>
      [] shape = "both" -> <<EdgeRec(i, i + 1, LinkType(i)), EdgeRec(i + 1, i, LinkType(i))>>
      [] shape = "cycle" -> <<EdgeRec(i, i + 1, LinkType(i))>>
      [] shape = "star" -> <<EdgeRec(1, i + 1, LinkType(i))>>

RECURSIVE Links(_, _, _)
Links(i, L, shape) ==
    IF i > L THEN IF shape = "cycle" /\ L >= 2 THEN <<EdgeRec(L + 1, 1, None)>> ELSE <<>>
    ELSE Link(i, shape) \o Links(i + 1, L, shape)

\* Node 1 has the props focus, node tpos the props target, the other nodes
\* are category nodes or are left out of "nodes" (add_edge creates them).
RECURSIVE NodeList(_, _, _, _, _, _)
NodeList(i, L, focus, tpos, target, conn) ==
    IF i > L + 1 THEN <<>>
    ELSE (IF i = 1 THEN <<NodeRec(i, focus)>>
          ELSE IF i = tpos THEN <<NodeRec(i, target)>>
          ELSE IF conn = "category" THEN <<NodeRec(i, Category)>>
          ELSE <<>>)
         \o NodeList(i + 1, L, focus, tpos, target, conn)

Document(L, shape, focus, tpos, target, conn) ==
    [nodes |-> NodeList(1, L, focus, tpos, target, conn), edges |-> Links(1, L, shape)]

Query(r, mp, rt, ob, k) ==
    [requested_product_id |-> r, max_price |-> mp, required_tags |-> rt,
     optional_brand |-> ob, max_results |-> k]

OptPrices == {None} \cup {Some(p) : p \in Prices}
OptBrands == {None} \cup {Some(b) : b \in Brands}

\* Requests decided by the exact-match check: every in-stock product against
\* every constraint, on a graph of one or two nodes.
FocusExact ==
    {Product(Some(TRUE), p, b, t, None) : p \in OptPrices, b \in OptBrands, t \in SUBSET Tags}
    \cup {Product(Some(FALSE), Some(1), Some("X"), {1}, None),
          Product(None, Some(1), Some("X"), {1}, None), Category}

QueriesExact ==
    {Query(r, mp, rt, ob, DefaultMaxResults) :
        r \in {1, NumNodes + 1}, mp \in OptPrices, rt \in SUBSET Tags,
        ob \in {None, Some("X"), Some("")}}

CasesExact ==
    {[data |-> Document(L, "fwd", f, 0, Category, "category"), query |-> q] :
        L \in 0..1, f \in FocusExact, q \in QueriesExact}

\* Requests that search: chains, cycles and stars of up to NumNodes nodes
\* around a requested node that is unavailable or fails a constraint.
FocusSearch ==
    {Product(Some(FALSE), Some(1), Some("X"), {1}, Some(NumNodes)),
     Product(Some(TRUE), Some(MaxPrice), Some("Y"), {}, Some(NumNodes)),
     Category}

TargetProps ==
    {Product(Some(TRUE), Some(1), Some("X"), {1}, Some(NumNodes)),
     Product(Some(FALSE), Some(1), Some("X"), {1}, Some(NumNodes))}

QueriesSearch ==
    {Query(r, mp, rt, ob, k) :
        r \in {1, 2}, mp \in {None, Some(1)}, rt \in {{}, {1}},
        ob \in {None, Some("X")}, k \in {1, DefaultMaxResults}}

\* Where the one product other than node 1 sits: nowhere, next to node 1,
\* in the middle or at the far end.
TargetPos(where, L) ==
    CASE where = "none" -> 0
      [] where = "near" -> 2
      [] where = "mid" -> (L + 3) \div 2
      [] where = "far" -> L + 1

CasesSearch ==
    {[data |-> Document(L, shape, f, TargetPos(where, L), t, conn), query |-> q] :
        L \in 0..(NumNodes - 1), shape \in {"fwd", "bwd", "both", "cycle", "star"},
        f \in FocusSearch, where \in {"none", "near", "mid", "far"}, t \in TargetProps,
        conn \in {"category", "undeclared"}, q \in QueriesSearch}

Idle ==
    /\ queue = <<>>
    /\ visited = {}
    /\ cur = NoCur
    /\ neighbors = <<>>
    /\ candidates = <<>>
    /\ result = NoResult
    /\ enqueued = <<>>
    /\ call = NoCall

Init ==
    /\ \E c \in CasesExact \cup CasesSearch :
          /\ G = load_kg(c.data)
          /\ query = c.query
    /\ pc = "start"
    /\ Idle

Next == Start \/ Pop \/ Visit \/ Rank

Spec == Init /\ [][Next]_vars

\* ------------------------------------ categories_are_similar on its own
NumCats == 3
MaxSimEdges == 2

SeqsUpTo(S, n) == UNION {[1..k -> S] : k \in 0..n}

RECURSIVE CategoryNodes(_)
CategoryNodes(i) ==
    IF i > NumCats THEN <<>> ELSE <<NodeRec(i, Category)>> \o CategoryNodes(i + 1)

SimEdges ==
    {EdgeRec(u, v, t) : u \in 1..NumCats, v \in 1..NumCats,
                        t \in {Some("SIMILAR_TO"), Some("IS_A"), None}}

SimDocuments ==
    {[nodes |-> CategoryNodes(1), edges |-> es] :
        es \in {e \in SeqsUpTo(SimEdges, MaxSimEdges) :
                    \A i \in 1..Len(e) : e[i].source # e[i].target}}

InitSim ==
    /\ \E d \in SimDocuments : G = load_kg(d)
    /\ query = Query(1, None, {}, None, DefaultMaxResults)
    /\ pc = "idle"
    /\ Idle

CallSimilar ==
    /\ pc = "idle"
    /\ \E a, b \in {None} \cup {Some(c) : c \in 1..NumCats} :
          call' = [fn |-> "categories_are_similar", cat_a |-> a, cat_b |-> b,
                   out |-> categories_are_similar(G, a, b)]
    /\ pc' = "returned"
    /\ UNCHANGED <<G, query, queue, visited, cur, neighbors, candidates, result, enqueued>>

NextSim == CallSimilar

SimSpec == InitSim /\ [][NextSim]_vars

\* ------------------------------------------- score_candidate on its own
\* Node 1 is the requested product, node 2 the candidate, nodes 3 and 4 are
\* categories, joined or not by one edge.
ScoreDocuments ==
    {[nodes |-> <<NodeRec(1, Product(Some(FALSE), rp, rb, {}, rc)),
                  NodeRec(2, Product(Some(TRUE), cp, cb, ct, cc)),
                  NodeRec(3, Category), NodeRec(4, Category)>>,
      edges |-> es] :
        rp \in OptPrices, rb \in {None, Some("X")}, rc \in {None, Some(3)},
        cp \in OptPrices, cb \in OptBrands, ct \in SUBSET Tags,
        cc \in {None, Some(3), Some(4)},
        es \in {<<>>, <<EdgeRec(3, 4, Some("SIMILAR_TO"))>>,
                <<EdgeRec(4, 3, Some("SIMILAR_TO"))>>, <<EdgeRec(3, 4, Some("IS_A"))>>}}

InitScore ==
    /\ \E d \in ScoreDocuments : G = load_kg(d)
    /\ query = Query(1, None, {}, None, DefaultMaxResults)
    /\ pc = "idle"
    /\ Idle

CallScore ==
    /\ pc = "idle"
    /\ \E rt \in SUBSET Tags, ob \in {None, Some(""), Some("X")} :
          call' = [fn |-> "score_candidate", requested |-> 1, candidate |-> 2,
                   required_tags |-> rt, optional_brand |-> ob,
                   out |-> score_candidate(G, 1, 2, rt, ob)]
    /\ pc' = "returned"
    /\ UNCHANGED <<G, query, queue, visited, cur, neighbors, candidates, result, enqueued>>

NextScore == CallScore

ScoreSpec == InitScore /\ [][NextScore]_vars

\* ----------------------------------------------------------------- claims
Requested == query.requested_product_id

\* The constraints of a query, stated on the node's attributes.
MeetsConstraints(n) ==
    /\ query.max_price # None =>
          /\ G.node[n].price # None
          /\ Val(G.node[n].price) <= Val(query.max_price)
    /\ query.required_tags \subseteq G.node[n].tags
    /\ query.optional_brand # None => G.node[n].brand = query.optional_brand

Available(n) ==
    /\ n \in DOMAIN G.node
    /\ G.node[n].type = Some("product")
    /\ G.node[n].in_stock = Some(TRUE)

ExactCase == Available(Requested) /\ MeetsConstraints(Requested)

\* Undirected hop distance: the nodes within k hops of r.
Adjacent(u, v) == <<u, v>> \in DOMAIN G.edge \/ <<v, u>> \in DOMAIN G.edge
RECURSIVE Ball(_, _)
Ball(r, k) ==
    IF k = 0 THEN {r}
    ELSE LET B == Ball(r, k - 1)
         IN B \cup {v \in DOMAIN G.node : \E u \in B : Adjacent(u, v)}

Products(s) == {s[i].product : i \in 1..Len(s)}

\* C1: when the requested id is an in-stock product node that satisfies all
\* constraints, the call returns the exact match naming it, and no search
\* state is ever created: nothing is visited, enqueued or listed.
C1_ExactMatch ==
    ExactCase =>
        /\ pc \in {"start", "done"}
        /\ visited = {} /\ queue = <<>> /\ enqueued = <<>> /\ candidates = <<>>
        /\ pc = "done" =>
              /\ result.kind = "exact_match"
              /\ result.exact = Some(Requested)
              /\ result.alternatives = <<>>

\* C1 witness: an exact match returned under a price ceiling, a required tag
\* and a brand preference.
C1_Witness ==
    /\ pc = "done"
    /\ result.kind = "exact_match"
    /\ query.max_price # None
    /\ query.required_tags # {}
    /\ query.optional_brand # None

\* C3: no visited node, and no candidate, lies more than 4 hops from the
\* requested node; every recorded path has at most 4 edges.
C3_DepthBound ==
    /\ \A n \in visited : n \in Ball(Requested, 4)
    /\ \A i \in 1..Len(candidates) :
          /\ candidates[i].product \in Ball(Requested, 4)
          /\ Len(candidates[i].path) - 1 <= 4
    /\ \A i \in 1..Len(result.alternatives) : Len(result.alternatives[i].path) - 1 <= 4

\* The in-stock products other than the requested one that pass the hard
\* filters and lie within 4 hops.
Qualifying ==
    {p \in Ball(Requested, 4) : p # Requested /\ Available(p) /\ MeetsConstraints(p)}

\* C4: when the requested product is unavailable or fails a constraint, every
\* qualifying product within 4 hops is discovered, the call ends with an
\* alternatives result that contains it when at most max_results qualify,
\* and no out-of-stock product is a candidate.
C4_Discovery ==
    (/\ pc = "done"
     /\ Requested \in DOMAIN G.node
     /\ G.node[Requested].type = Some("product")
     /\ ~ExactCase) =>
        /\ \A p \in Qualifying :
              /\ p \in Products(candidates)
              /\ Cardinality(Qualifying) <= query.max_results =>
                    /\ result.kind = "alternatives"
                    /\ p \in Products(result.alternatives)
        /\ \A p \in Products(candidates) : G.node[p].in_stock = Some(TRUE)

\* In every reachable state the candidate list and the returned alternatives
\* are empty: the first product neighbour ends the call at line 79.
NoCandidateEver == candidates = <<>> /\ result.alternatives = <<>>

\* C6: a finished call has returned the not-found error exactly when the
\* requested id is absent, and otherwise an exact match or an alternatives
\* list; it never ends in an exception.
C6_OnlyNotFound ==
    pc = "done" =>
        /\ result.kind \in {"error", "exact_match", "alternatives"}
        /\ result.kind = "error" <=> Requested \notin DOMAIN G.node

\* What C7 says categories_are_similar returns.
SimilarEdge(u, v) == <<u, v>> \in DOMAIN G.edge /\ G.edge[<<u, v>>].type = "SIMILAR_TO"
SimilarClaimed(a, b) ==
    /\ a # None
    /\ b # None
    /\ \/ a = b
       \/ SimilarEdge(Val(a), Val(b))
       \/ SimilarEdge(Val(b), Val(a))

\* C7: categories_are_similar never raises and returns true exactly for two
\* present categories that are equal or joined by a direct SIMILAR_TO edge
\* in either direction.
C7_Similar ==
    call.fn = "categories_are_similar" =>
        /\ call.out.exc = NoExc
        /\ call.out.val = SimilarClaimed(call.cat_a, call.cat_b)

\* The rule a reason code belongs to, in the order of evaluation.
RuleOf(code) ==
    CASE code \in {"same_category", "related_category"} -> 1
      [] code \in {"brand_match", "different_brand", "same_brand"} -> 2
      [] code \in {"all_required_tags_matched", "missing_tags"} -> 3
      [] code \in {"cheaper_or_equal_price", "more_expensive"} -> 4
      [] OTHER -> 0

HasReason(reasons, code) == \E i \in 1..Len(reasons) : reasons[i].code = code

\* The contribution C8 gives for a reason, as a numerator over den = 2*m.
Contribution(r, m, required_tags, candidate, requested) ==
    CASE r.code = "same_category" -> 6 * m
      [] r.code = "related_category" -> 3 * m
      [] r.code = "brand_match" -> 2 * m
      [] r.code = "different_brand" -> 0
      [] r.code = "same_brand" -> m
      [] r.code = "all_required_tags_matched" -> 4 * m
      [] r.code = "missing_tags" -> m * (Cardinality(required_tags) - Len(r.arg))
      [] r.code = "cheaper_or_equal_price" -> 2 * m
      [] r.code = "more_expensive" ->
            0 - (Val(G.node[candidate].price) - Val(G.node[requested].price))

RECURSIVE SumContributions(_, _, _, _, _)
SumContributions(reasons, m, required_tags, candidate, requested) ==
    IF reasons = <<>> THEN 0
    ELSE Contribution(Head(reasons), m, required_tags, candidate, requested)
         + SumContributions(Tail(reasons), m, required_tags, candidate, requested)

\* C8: score_candidate returns, for every input, reasons with at most one
\* code per rule in the order category, brand, tags, price, a score equal to
\* the sum of the contributions of those reasons, negative only when
\* more_expensive is among them.
C8_Score ==
    call.fn = "score_candidate" =>
        LET out == call.out
            rp == G.node[call.requested].price
            m == IF rp = None THEN 1 ELSE Max(1, Val(rp))
        IN /\ out.exc = NoExc
           /\ \A i \in 1..Len(out.reasons) : RuleOf(out.reasons[i].code) # 0
           /\ \A i, j \in 1..Len(out.reasons) :
                 i < j => RuleOf(out.reasons[i].code) < RuleOf(out.reasons[j].code)
           /\ out.score.den = 2 * m
           /\ out.score.num = SumContributions(out.reasons, m, call.required_tags,
                                               call.candidate, call.requested)
           /\ out.score.num < 0 => HasReason(out.reasons, "more_expensive")

\* C9: each node is enqueued at most once, the requested node only as the
\* seed, and a search that has started ends with the queue empty and an
\* alternatives result returned.
C9_SearchCompletes ==
    /\ \A i, j \in 1..Len(enqueued) : enqueued[i] = enqueued[j] => i = j
    /\ \A i \in 1..Len(enqueued) : enqueued[i] = Requested => i = 1
    /\ (pc = "done" /\ enqueued # <<>>) =>
          /\ queue = <<>>
          /\ result.kind = "alternatives"

====
